---- MODULE Spec2Model ----
(***************************************************************************)
(* Monthly shift-schedule generation engine (ScheduleGenerator v2.0) of    *)
(* backend-caliente, together with the Schedule table it reads and writes. *)
(* Dates are integers: 1..NumDays is the target month, 0 is the last day   *)
(* of the previous month, -1 the day before it, and so on.                 *)
(***************************************************************************)
EXTENDS Integers, Sequences, FiniteSets, TLC

(***************************************************************************)
(* Bounds of the model.                                                    *)
(***************************************************************************)
NumEmployees == 3
NumDays == 5
FirstWeekday == 3
MaxHistory == 2
MaxRuns == 2

(***************************************************************************)
(* Program constants.                                                      *)
(***************************************************************************)
LookbackDays == 7
ConsecSafetyLimit == 10
EarliestStart == 6
HighDemandThreshold == 9
DayHours == 24
WeekLength == 7
SaturdayIndex == 5

Employees == 1..NumEmployees
MonthDays == 1..NumDays

NoTime == -1
NoCategory == "NONE"
NoCode == "NOCODE"

ALGORITHM == "ALGORITHM"
EditSources == {"ALGORITHM", "MANUAL", "BULK_IMPORT", "SWAP", "GRID_EDIT"}

MONITOR_TRADER == "MONITOR_TRADER"
INPLAY_TRADER == "INPLAY_TRADER"
PREMATCH_TRADER == "PREMATCH_TRADER"
MANAGER == "MANAGER"
TraderRoles == {MONITOR_TRADER, INPLAY_TRADER, PREMATCH_TRADER}

(***************************************************************************)
(* Catalog: the shift types and categories the seed command installs.      *)
(***************************************************************************)
WorkShift(code, cat, endh, mon, inplay) ==
    [code |-> code, category |-> cat, end_hour |-> endh,
     is_working_shift |-> TRUE,
     applicable_to_monitor |-> mon, applicable_to_inplay |-> inplay]

StatusShift(code) ==
    [code |-> code, category |-> NoCategory, end_hour |-> NoTime,
     is_working_shift |-> FALSE,
     applicable_to_monitor |-> TRUE, applicable_to_inplay |-> TRUE]

ShiftTypes ==
    << WorkShift("MON6", "AM", 14, TRUE, FALSE),
       WorkShift("MON12", "MID", 20, TRUE, FALSE),
       WorkShift("MON14", "MID", 22, TRUE, FALSE),
       WorkShift("IP6", "AM", 14, FALSE, TRUE),
       WorkShift("IP9", "INS", 17, FALSE, TRUE),
       WorkShift("IP12", "MID", 20, FALSE, TRUE),
       WorkShift("IP14", "MID", 22, FALSE, TRUE),
       WorkShift("PM7", "AM", 15, FALSE, TRUE),
       WorkShift("PM9", "INS", 17, FALSE, TRUE),
       WorkShift("NS", "NS", 6, TRUE, TRUE),
       WorkShift("HO-IP6", "HO", 14, FALSE, TRUE),
       WorkShift("HO-IP10", "HO", 18, FALSE, TRUE),
       WorkShift("HO-IP12", "HO", 20, FALSE, TRUE),
       WorkShift("HO-IP14", "HO", 22, FALSE, TRUE),
       WorkShift("IP10-FER14", "INS", 14, FALSE, TRUE),
       WorkShift("FERDI10", "INS", 18, FALSE, TRUE),
       WorkShift("FERDI14", "MID", 22, FALSE, TRUE),
       StatusShift("CUMPLE"),
       StatusShift("OFF"),
       StatusShift("VAC"),
       StatusShift("FES") >>

ShiftCodes == {ShiftTypes[i].code : i \in DOMAIN ShiftTypes}

\* categories in display order
CategoryOrder == << "AM", "INS", "MID", "NS", "HO", "STATUS" >>
CategoryCodes == {CategoryOrder[i] : i \in DOMAIN CategoryOrder}

SeedMinTraders ==
    [c \in CategoryCodes |->
        CASE c = "AM" -> 3
          [] c = "MID" -> 3
          [] c = "NS" -> 1
          [] OTHER -> 0]

RestCodes == {"OFF", "VAC", "FES", "CUMPLE"}

MonitorCycle == << "MON6", "MON12", "MON14", "OFF" >>
InplayCycle == << "IP6", "IP9", "IP10", "IP12", "IP14", "OFF" >>

\* _get_cycle_configs: no default ShiftCycleConfig rows, so the fallbacks
cycles(role) ==
    IF role = MONITOR_TRADER THEN MonitorCycle ELSE InplayCycle

VARIABLES
    inactive_codes,     \* ShiftType rows with is_active = False (set of codes)
    employees,          \* Employee table: id -> [role, is_active, exclude_from_grid]
    settings,           \* SystemSettings singleton
    cat_min_traders,    \* ShiftCategory.min_traders per category code
    db,                 \* Schedule table: set of [employee, date, code, edit_source]
    vacations,          \* Vacation table: set of [employee, start_date, end_date, status]
    events,             \* SportEvent table: set of [date_start, date_end, priority]
    logs,               \* ScheduleGenerationLog table (sequence, in creation order)
    runs,               \* number of generate invocations started
    pc,                 \* position of the running generate invocation
    traders,            \* generate: list of in-scope traders
    locked_cells,       \* generate: employee -> day -> code (NoCode = not locked)
    run_assignments,    \* self._run_assignments: employee -> day -> code
    all_assignments,    \* generate: list of Schedule objects to bulk-insert
    assignment_counts,  \* fairness: total assignments per trader
    off_counts,         \* OFFs per trader
    last_shift,         \* last assigned shift code per trader (NoCode = None)
    cycle_positions,    \* position in the role's cycle per trader
    demand_map,         \* day -> demand weight
    day,                \* the day the loop of generate is at
    assignments,        \* _assign_day: Schedule objects of the current day
    day_coverage,       \* _assign_day: category -> count
    assigned_traders,   \* _assign_day: set of trader ids
    available,          \* _assign_day: list of available traders (fairness order)
    need_off,           \* _assign_day: traders that must rest today
    warnings, errors, decisions,  \* message lists of the invocation
    alg_before,         \* history: ALGORITHM rows of the month when the invocation started
    results,            \* history: ALGORITHM rows of the month after each finished invocation
    starts,             \* history: Schedule and Vacation tables when each invocation started
    parked,             \* the other invocation of generate: its position and its locals
    walk,               \* one call of _pick_shift_from_cycle: its arguments and what it returned
    swaps               \* SwapRequest table

vars == << inactive_codes, employees, settings, cat_min_traders, db, vacations, events, logs, runs, pc,
           traders, locked_cells, run_assignments, all_assignments, assignment_counts,
           off_counts, last_shift, cycle_positions, demand_map, day, assignments,
           day_coverage, assigned_traders, available, need_off, warnings, errors,
           decisions, alg_before, results, starts, parked, walk, swaps >>

\* _get_shift_types: ShiftType.objects.filter(is_active=True), in catalog order
GetShiftTypes == SelectSeq(ShiftTypes, LAMBDA st : st.code \notin inactive_codes)

\* st_cache = {st.code: st for st in shift_types}
InStCache(code) == code \in ShiftCodes \ inactive_codes
StCache(code) == ShiftTypes[CHOOSE i \in DOMAIN ShiftTypes : ShiftTypes[i].code = code]

(***************************************************************************)
(* Sequence helpers.                                                       *)
(***************************************************************************)
Range(seq) == {seq[i] : i \in DOMAIN seq}

Remove(seq, x) == SelectSeq(seq, LAMBDA y : y # x)

Max(a, b) == IF a >= b THEN a ELSE b

CeilDiv(a, b) == (a + b - 1) \div b

(***************************************************************************)
(* Schedule table.                                                         *)
(***************************************************************************)
HasRow(table, e, d) == \E r \in table : r.employee = e /\ r.date = d

\* Schedule.objects.filter(employee_id=e, date=d).first()
FirstRow(table, e, d) == CHOOSE r \in table : r.employee = e /\ r.date = d

\* bulk_create(rows, ignore_conflicts=True): a row whose (employee, date) is taken is skipped
RECURSIVE BulkCreate(_, _)
BulkCreate(table, rows) ==
    IF rows = << >> THEN table
    ELSE LET r == Head(rows)
             row == [employee |-> r.employee, date |-> r.date, code |-> r.code,
                     edit_source |-> ALGORITHM]
         IN BulkCreate(IF HasRow(table, r.employee, r.date) THEN table
                       ELSE table \cup {row},
                       Tail(rows))

AlgorithmRowsOfMonth(table) ==
    {r \in table : r.date \in MonthDays /\ r.edit_source = ALGORITHM}

(***************************************************************************)
(* Data loading.                                                           *)
(***************************************************************************)
InScopeAnyGrid(e) ==
    /\ employees[e].is_active
    /\ employees[e].role \in TraderRoles

InScope(e) ==
    /\ employees[e].is_active
    /\ ~employees[e].exclude_from_grid
    /\ employees[e].role \in TraderRoles

\* _get_active_traders: the in-scope employees, in id order
RECURSIVE ActiveTradersFrom(_)
ActiveTradersFrom(e) ==
    IF e > NumEmployees THEN << >>
    ELSE (IF InScope(e) THEN << e >> ELSE << >>) \o ActiveTradersFrom(e + 1)

GetActiveTraders == ActiveTradersFrom(1)

Role(t) == employees[t].role

Decision(kind, cat, emp, date, n) ==
    [kind |-> kind, cat |-> cat, emp |-> emp, date |-> date, n |-> n]

\* _load_prior_history: codes of the 7 days before the month, oldest first
RECURSIVE HistoryFrom(_, _)
HistoryFrom(e, d) ==
    IF d > 0 THEN << >>
    ELSE (IF HasRow(db, e, d) THEN << FirstRow(db, e, d).code >> ELSE << >>)
         \o HistoryFrom(e, d + 1)

LoadPriorHistory(e) == HistoryFrom(e, 1 - LookbackDays)

HistoryTraders(trs) == {t \in Range(trs) : LoadPriorHistory(t) # << >>}

\* _lock_approved_vacations
VacationsAnyStatus(trs) ==
    {v \in vacations : /\ v.employee \in Range(trs)
                       /\ v.start_date <= NumDays
                       /\ v.end_date >= 1}

ApprovedVacations(trs) ==
    {v \in vacations : /\ v.employee \in Range(trs)
                       /\ v.status = "APPROVED"
                       /\ v.start_date <= NumDays
                       /\ v.end_date >= 1}

VacationLocked(trs, e, d) ==
    /\ InStCache("VAC")
    /\ \E v \in ApprovedVacations(trs) :
          v.employee = e /\ v.start_date <= d /\ d <= v.end_date

LockApprovedVacations(trs) ==
    [e \in Employees |-> [d \in MonthDays |->
        IF VacationLocked(trs, e, d) THEN "VAC" ELSE NoCode]]

\* _lock_existing_schedules
\* Faulty variant: the lock query without its exclude(edit_source=ALGORITHM),
\* so the previous run's own rows lock the cells of the next run.
ExistingRowsAnySource(trs) ==
    {r \in db : r.date \in MonthDays /\ r.employee \in Range(trs)}

ExistingRows(trs) ==
    {r \in db : /\ r.date \in MonthDays
                /\ r.employee \in Range(trs)
                /\ r.edit_source # ALGORITHM}

LockExistingSchedules(trs, locked) ==
    [e \in Employees |-> [d \in MonthDays |->
        IF locked[e][d] # NoCode THEN locked[e][d]
        ELSE IF \E r \in ExistingRows(trs) : r.employee = e /\ r.date = d
             THEN FirstRow(ExistingRows(trs), e, d).code
             ELSE NoCode]]

PreservedCount(trs, locked) ==
    Cardinality({r \in ExistingRows(trs) : locked[r.employee][r.date] = NoCode})

VacationCellCount(trs) ==
    Cardinality({c \in Employees \X MonthDays : VacationLocked(trs, c[1], c[2])})

\* the delete of generate: rows of the month, of the traders, authored by the algorithm
\* Faulty variant: the cleanup query without its edit_source filter.
OldRowsAnySource(trs) ==
    {r \in db : r.date \in MonthDays /\ r.employee \in Range(trs)}

OldAlgorithmRows(trs) ==
    {r \in db : /\ r.date \in MonthDays
                /\ r.employee \in Range(trs)
                /\ r.edit_source = ALGORITHM}

(***************************************************************************)
(* Layer 3: demand map.                                                    *)
(***************************************************************************)
EventEndOfMonth(ev) == IF ev.has_end THEN ev.date_end ELSE NumDays

EventEnd(ev) == IF ev.has_end THEN ev.date_end ELSE ev.date_start

ConsideredEvents ==
    {ev \in events : ev.date_start <= NumDays /\ (~ev.has_end \/ ev.date_end >= 1)}

\* SportEvent.demand_weight
DemandWeight(ev) == 11 - ev.priority

RECURSIVE SumWeights(_)
SumWeights(evs) ==
    IF evs = {} THEN 0
    ELSE LET ev == CHOOSE x \in evs : TRUE
         IN DemandWeight(ev) + SumWeights(evs \ {ev})

ActiveOn(ev, d) == ev.date_start <= d /\ d <= EventEnd(ev)

ComputeDemandMap ==
    [d \in MonthDays |-> SumWeights({ev \in ConsideredEvents : ActiveOn(ev, d)})]

HighDemandDays ==
    {d \in MonthDays : \E ev \in ConsideredEvents : ActiveOn(ev, d) /\ ev.priority <= 2}

(***************************************************************************)
(* Constraint checkers.                                                    *)
(***************************************************************************)
\* _get_consecutive_work_days: the loop, at date `check` with `count` days counted
RECURSIVE ConsecutiveFrom(_, _, _)
ConsecutiveFrom(t, check, count) ==
    IF count >= ConsecSafetyLimit THEN count
    ELSE IF check \in MonthDays /\ locked_cells[t][check] # NoCode
    THEN IF locked_cells[t][check] \in RestCodes THEN count
         ELSE ConsecutiveFrom(t, check - 1, count + 1)
    ELSE IF check \in MonthDays /\ run_assignments[t][check] # NoCode
    THEN IF run_assignments[t][check] \in RestCodes THEN count
         ELSE ConsecutiveFrom(t, check - 1, count + 1)
    ELSE IF HasRow(db, t, check) /\ StCache(FirstRow(db, t, check).code).is_working_shift
    THEN ConsecutiveFrom(t, check - 1, count + 1)
    ELSE count

GetConsecutiveWorkDays(t, d) == ConsecutiveFrom(t, d - 1, 0)

RestAfter(end_hour) == (DayHours - end_hour) + EarliestStart

\* _check_rest_hours
CheckRestHours(t, d) ==
    LET yesterday == d - 1
        min_rest == settings.min_rest_hours
    IN IF yesterday \in MonthDays /\ run_assignments[t][yesterday] # NoCode
       THEN LET code == run_assignments[t][yesterday]
            IN \/ code \in RestCodes
               \/ ~InStCache(code)
               \/ StCache(code).end_hour = NoTime
               \/ RestAfter(StCache(code).end_hour) >= min_rest
       ELSE IF ~HasRow(db, t, yesterday)
       THEN LET last_code == last_shift[t]
            IN \/ last_code = NoCode
               \/ last_code \in {"OFF", "VAC"}
               \/ ~InStCache(last_code)
               \/ StCache(last_code).end_hour = NoTime
               \/ RestAfter(StCache(last_code).end_hour) >= min_rest
       ELSE LET prev == StCache(FirstRow(db, t, yesterday).code)
            IN \/ prev.end_hour = NoTime
               \/ RestAfter(prev.end_hour) >= min_rest

\* _shift_applicable_to_trader
ShiftApplicableToTrader(st, t) ==
    IF Role(t) = MONITOR_TRADER THEN st.applicable_to_monitor
    ELSE st.applicable_to_inplay

\* the trader must rest on day d (consecutive days, then rest hours)
MustRest(t, d) ==
    \/ GetConsecutiveWorkDays(t, d) >= settings.max_consecutive_days
    \/ ~CheckRestHours(t, d)

(***************************************************************************)
(* Cycle walk.                                                             *)
(***************************************************************************)
\* first offset in 0..Len(cycle)-1, from `offset` on, whose code is applicable; -1 if none
RECURSIVE CycleOffset(_, _, _, _)
CycleOffset(cycle, pos, codes, offset) ==
    IF offset >= Len(cycle) THEN -1
    ELSE IF cycle[((pos + offset) % Len(cycle)) + 1] \in codes THEN offset
    ELSE CycleOffset(cycle, pos, codes, offset + 1)

PickShiftNoWrap(t, applicable, pos) ==
    LET cycle == cycles(Role(t))
        off == CycleOffset(cycle, pos, Range(applicable), 0)
    IN IF off >= 0
       THEN [code |-> cycle[((pos + off) % Len(cycle)) + 1], pos |-> pos + off + 1]
       ELSE IF applicable # << >>
       THEN [code |-> applicable[1], pos |-> pos]
       ELSE [code |-> NoCode, pos |-> pos]

\* _pick_shift_from_cycle: [code, pos], code = NoCode for None
PickShiftFromCycle(t, applicable, pos) ==
    LET cycle == cycles(Role(t))
        off == CycleOffset(cycle, pos, Range(applicable), 0)
    IN IF off >= 0
       THEN [code |-> cycle[((pos + off) % Len(cycle)) + 1],
             pos |-> (pos + off + 1) % Len(cycle)]
       ELSE IF applicable # << >>
       THEN [code |-> applicable[1], pos |-> pos]
       ELSE [code |-> NoCode, pos |-> pos]

(***************************************************************************)
(* Calendar and demand level of a day.                                     *)
(***************************************************************************)
Weekday(d) == (FirstWeekday + d - 1) % WeekLength
IsSundayOnly(d) == Weekday(d) > SaturdayIndex
IsWeekend(d) == Weekday(d) >= SaturdayIndex
IsHighDemand(d) == demand_map[d] >= HighDemandThreshold
WeekendSuppressed(d) == ~settings.weekend_scheduling /\ IsWeekend(d)

TargetOffPerTrader == Max(1, NumDays \div WeekLength)
MaxOffPerDay == Max(1, CeilDiv(Len(traders) * TargetOffPerTrader, NumDays))

EffectiveMaxOff(d) ==
    IF IsHighDemand(d) THEN Max(1, MaxOffPerDay \div 2)
    ELSE IF IsWeekend(d) /\ ~settings.weekend_scheduling THEN Len(traders)
    ELSE MaxOffPerDay

off_shift == IF InStCache("OFF") THEN "OFF" ELSE NoCode

(***************************************************************************)
(* _assign_day.  The mutable locals and trackers travel in a record L.     *)
(***************************************************************************)
Locals ==
    [assignments |-> assignments, run_assignments |-> run_assignments,
     assignment_counts |-> assignment_counts, off_counts |-> off_counts,
     last_shift |-> last_shift, cycle_positions |-> cycle_positions,
     day_coverage |-> day_coverage, assigned_traders |-> assigned_traders,
     available |-> available, need_off |-> need_off, decisions |-> decisions]

\* _make_schedule, appended to the day's assignments
MakeSchedule(L, t, d, code) ==
    [L EXCEPT !.run_assignments[t][d] = code,
              !.assignments = Append(@, [employee |-> t, date |-> d, code |-> code])]

\* Faulty variant: the OFF is counted but its Schedule is never appended.
GiveOffUnsaved(L, t, d) ==
    [L EXCEPT !.run_assignments[t][d] = off_shift,
              !.assignment_counts[t] = @ + 1,
              !.off_counts[t] = @ + 1,
              !.last_shift[t] = "OFF"]

\* an OFF assignment: counters and last shift
GiveOff(L, t, d) ==
    [MakeSchedule(L, t, d, off_shift) EXCEPT
        !.assignment_counts[t] = @ + 1,
        !.off_counts[t] = @ + 1,
        !.last_shift[t] = "OFF"]

\* a working assignment picked by the cycle walk
GiveWork(L, t, d, pick) ==
    [MakeSchedule(L, t, d, pick.code) EXCEPT
        !.assignment_counts[t] = @ + 1,
        !.last_shift[t] = pick.code,
        !.cycle_positions[t] = pick.pos,
        !.assigned_traders = @ \cup {t}]

CountCoverage(L, cat) ==
    IF cat \in CategoryCodes
    THEN [L EXCEPT !.day_coverage[cat] = @ + 1]
    ELSE L

\* coverage seeded from locked cells
LockedCoverage(d) ==
    [c \in CategoryCodes |->
        Cardinality({t \in Range(traders) :
            /\ locked_cells[t][d] # NoCode
            /\ InStCache(locked_cells[t][d])
            /\ StCache(locked_cells[t][d]).is_working_shift
            /\ StCache(locked_cells[t][d]).category = c})]

NoLockedTraders(d) == {}

LockedTraders(d) == {t \in Range(traders) : locked_cells[t][d] # NoCode}

\* weekend with scheduling disabled: OFF for every trader not locked
RECURSIVE WeekendOff(_, _, _)
WeekendOff(L, d, i) ==
    IF i > Len(traders) THEN L
    ELSE LET t == traders[i]
         IN WeekendOff(IF t \in L.assigned_traders \/ off_shift = NoCode THEN L
                       ELSE GiveOff(L, t, d),
                       d, i + 1)

\* available.sort(key=(assignment_counts, off_counts)), stable
FairnessBefore(a, b) ==
    \/ assignment_counts[a] < assignment_counts[b]
    \/ /\ assignment_counts[a] = assignment_counts[b]
       /\ off_counts[a] < off_counts[b]

RECURSIVE InsertSorted(_, _)
InsertSorted(sorted, x) ==
    IF sorted = << >> THEN << x >>
    ELSE IF FairnessBefore(x, Head(sorted)) THEN << x >> \o sorted
    ELSE << Head(sorted) >> \o InsertSorted(Tail(sorted), x)

\* Faulty variant: the available list left in roster order.
SortSkipped(sorted, rest) == sorted \o rest

RECURSIVE SortByFairness(_, _)
SortByFairness(sorted, rest) ==
    IF rest = << >> THEN sorted
    ELSE SortByFairness(InsertSorted(sorted, Head(rest)), Tail(rest))

(***************************************************************************)
(* Layer 5: monitor trader rule.                                           *)
(***************************************************************************)
MonitorTargetCats == << "AM", "INS", "MID" >>

MonitorTraders == {t \in Range(traders) : Role(t) = MONITOR_TRADER}

CodesOf(sts) == [i \in DOMAIN sts |-> sts[i].code]

\* working shifts of a category applicable to the trader, in catalog order
CatShiftsFor(cat, t) ==
    CodesOf(SelectSeq(GetShiftTypes, LAMBDA st :
        /\ st.category = cat
        /\ st.is_working_shift
        /\ ShiftApplicableToTrader(st, t)))

\* working shifts of a category, in catalog order
CatShifts(cat) ==
    CodesOf(SelectSeq(GetShiftTypes, LAMBDA st :
        st.category = cat /\ st.is_working_shift))

AlreadyHasMonitor(cat, d) ==
    \E t \in MonitorTraders :
        /\ locked_cells[t][d] # NoCode
        /\ InStCache(locked_cells[t][d])
        /\ StCache(locked_cells[t][d]).category = cat

AvailMonitors(L) == SelectSeq(L.available, LAMBDA t : Role(t) = MONITOR_TRADER)

\* the monitors a pass may take for the category, in list order
PassCandidates(L, cat, pass_num) ==
    SelectSeq(AvailMonitors(L), LAMBDA t :
        /\ (pass_num = 1 => t \notin L.need_off)
        /\ CatShiftsFor(cat, t) # << >>)

\* Faulty variant: only the first pass, a tired monitor is never taken.
ChosenRestedMonitor(L, cat) ==
    IF PassCandidates(L, cat, 1) # << >> THEN PassCandidates(L, cat, 1)[1] ELSE 0

ChosenAnyMonitor(L, cat) ==
    IF PassCandidates(L, cat, 2) # << >> THEN PassCandidates(L, cat, 2)[1] ELSE 0

\* the monitor the two passes choose: 0 when there is none
ChosenMonitor(L, cat) ==
    IF PassCandidates(L, cat, 1) # << >> THEN PassCandidates(L, cat, 1)[1]
    ELSE IF PassCandidates(L, cat, 2) # << >> THEN PassCandidates(L, cat, 2)[1]
    ELSE 0

AssignMonitor(L, cat, d, t) ==
    LET pick == PickShiftFromCycle(t, CatShiftsFor(cat, t), L.cycle_positions[t])
        L1 == [GiveWork(L, t, d, pick) EXCEPT !.day_coverage[cat] = @ + 1]
    IN [L1 EXCEPT !.available = Remove(@, t),
                  !.need_off = @ \ {t}]

MonitorRuleCat(L, cat, d) ==
    IF AlreadyHasMonitor(cat, d) THEN L
    ELSE IF ChosenMonitor(L, cat) # 0
    THEN AssignMonitor(L, cat, d, ChosenMonitor(L, cat))
    ELSE [L EXCEPT !.decisions = Append(@, Decision("LAYER5", cat, 0, d, 0))]

RECURSIVE MonitorRule(_, _, _)
MonitorRule(L, d, i) ==
    IF i > Len(MonitorTargetCats) THEN L
    ELSE MonitorRule(MonitorRuleCat(L, MonitorTargetCats[i], d), d, i + 1)

(***************************************************************************)
(* Phase 1: coverage minimums.                                             *)
(***************************************************************************)
\* the loop over list(available) for one category: `queue` is what is left of
\* the snapshot, `filled` the number assigned so far
RECURSIVE FillCategory(_, _, _, _, _, _)
FillCategory(L, cat, d, needed, queue, filled) ==
    IF queue = << >> \/ filled >= needed
    THEN IF filled < needed
         THEN [L EXCEPT !.decisions = Append(@,
                  Decision("COVERAGE", cat, 0, d, L.day_coverage[cat]))]
         ELSE L
    ELSE LET t == Head(queue)
             applicable == CatShiftsFor(cat, t)
         IN IF (t \in L.need_off /\ ~IsHighDemand(d)) \/ applicable = << >>
            THEN FillCategory(L, cat, d, needed, Tail(queue), filled)
            ELSE LET pick == PickShiftFromCycle(t, applicable, L.cycle_positions[t])
                     L1 == [GiveWork(L, t, d, pick) EXCEPT
                               !.day_coverage[cat] = @ + 1,
                               !.available = Remove(@, t)]
                 IN FillCategory(L1, cat, d, needed, Tail(queue), filled + 1)

CoverageCat(L, cat, d) ==
    LET needed == cat_min_traders[cat] - L.day_coverage[cat]
    IN IF needed <= 0 \/ CatShifts(cat) = << >> THEN L
       ELSE FillCategory(L, cat, d, needed, L.available, 0)

RECURSIVE CoveragePhase(_, _, _)
CoveragePhase(L, d, i) ==
    IF i > Len(CategoryOrder) THEN L
    ELSE CoveragePhase(CoverageCat(L, CategoryOrder[i], d), d, i + 1)

(***************************************************************************)
(* Layer 4: smart OFF, and phase 2.                                        *)
(***************************************************************************)
ShouldAssignOffNoMargin(t, d, off_today, offs, tired) ==
    IF t \in tired THEN TRUE
    ELSE IF off_today >= EffectiveMaxOff(d) THEN FALSE
    ELSE IF IsHighDemand(d) THEN FALSE
    ELSE NumDays * offs[t] < TargetOffPerTrader * d

\* _should_assign_off; the quota test current_off < target*day/total - 0.5 in integers
ShouldAssignOff(t, d, off_today, offs, tired) ==
    IF t \in tired THEN TRUE
    ELSE IF off_today >= EffectiveMaxOff(d) THEN FALSE
    ELSE IF IsHighDemand(d) THEN FALSE
    ELSE 2 * NumDays * offs[t] < 2 * TargetOffPerTrader * d - NumDays

LockedOffToday(d) ==
    Cardinality({t \in Range(traders) : locked_cells[t][d] = "OFF"})

WorkingShiftsInCycle(t) ==
    SelectSeq(cycles(Role(t)), LAMBDA c :
        /\ c # "OFF"
        /\ InStCache(c)
        /\ ShiftApplicableToTrader(StCache(c), t))

\* one trader of phase 2: [L, off_today]
RemainingTrader(L, t, d, off_today) ==
    IF ShouldAssignOff(t, d, off_today, L.off_counts, L.need_off) /\ off_shift # NoCode
    THEN [L |-> [GiveOff(L, t, d) EXCEPT !.assigned_traders = @ \cup {t}],
          off_today |-> off_today + 1]
    ELSE IF WorkingShiftsInCycle(t) # << >>
    THEN LET pick == PickShiftFromCycle(t, WorkingShiftsInCycle(t), L.cycle_positions[t])
         IN IF pick.code # NoCode
            THEN [L |-> CountCoverage(GiveWork(L, t, d, pick), StCache(pick.code).category),
                  off_today |-> off_today]
            ELSE IF off_shift # NoCode
            THEN [L |-> [GiveOff(L, t, d) EXCEPT !.assigned_traders = @ \cup {t}],
                  off_today |-> off_today + 1]
            ELSE [L |-> L, off_today |-> off_today]
    ELSE IF off_shift # NoCode
    THEN [L |-> [GiveOff(L, t, d) EXCEPT !.assigned_traders = @ \cup {t}],
          off_today |-> off_today + 1]
    ELSE [L |-> L, off_today |-> off_today]

RECURSIVE RemainingPhase(_, _, _, _)
RemainingPhase(L, d, queue, off_today) ==
    IF queue = << >> THEN L
    ELSE LET r == RemainingTrader(L, Head(queue), d, off_today)
         IN RemainingPhase(r.L, d, Tail(queue), r.off_today)

\* the final guarantee: OFF for a trader left without assignment and not locked
RECURSIVE GuaranteePhase(_, _, _)
GuaranteePhase(L, d, i) ==
    IF i > Len(traders) THEN L
    ELSE LET t == traders[i]
         IN GuaranteePhase(
               IF /\ t \notin L.assigned_traders
                  /\ locked_cells[t][d] = NoCode
                  /\ off_shift # NoCode
               THEN [GiveOff(L, t, d) EXCEPT
                        !.decisions = Append(@, Decision("FALLBACK", NoCategory, t, d, 0))]
               ELSE L,
               d, i + 1)

(***************************************************************************)
(* Generation log.                                                         *)
(***************************************************************************)
MaxLoggedDecisions == 100

Prefix(seq, n) == IF Len(seq) <= n THEN seq ELSE SubSeq(seq, 1, n)

LogStatusIgnoringErrors(errs, warns) ==
    IF warns # << >> THEN "PARTIAL" ELSE "SUCCESS"

LogStatusNoPartial(errs, warns) ==
    IF errs # << >> THEN "FAILED" ELSE "SUCCESS"

LogStatus(errs, warns) ==
    IF errs # << >> THEN "FAILED"
    ELSE IF warns # << >> THEN "PARTIAL"
    ELSE "SUCCESS"

\* _create_log
CreateLog(total, scheduled_traders, events_count, warns, errs, decs) ==
    [status |-> LogStatus(errs, warns),
     total_assignments |-> total,
     events_considered |-> events_count,
     traders_scheduled |-> scheduled_traders,
     warnings |-> warns,
     errors |-> errs,
     algorithm_decisions |-> Prefix(decs, MaxLoggedDecisions)]

(***************************************************************************)
(* Initial state: a seeded catalog, a roster, settings, and the rows,      *)
(* leave requests and events entered before the first generation.         *)
(***************************************************************************)
NoLocks == [e \in Employees |-> [d \in MonthDays |-> NoCode]]
ZeroCounts == [e \in Employees |-> 0]
NoShifts == [e \in Employees |-> NoCode]
NoCoverage == [c \in CategoryCodes |-> 0]
NoDemand == [d \in MonthDays |-> 0]

\* an employee that does not take part: wrong role, inactive, or excluded from the grid
OutProfile(e) ==
    CASE e % 3 = 0 -> [role |-> MANAGER, is_active |-> TRUE, exclude_from_grid |-> FALSE]
      [] e % 3 = 1 -> [role |-> INPLAY_TRADER, is_active |-> FALSE, exclude_from_grid |-> FALSE]
      [] OTHER -> [role |-> MONITOR_TRADER, is_active |-> TRUE, exclude_from_grid |-> TRUE]

InProfile(role) == [role |-> role, is_active |-> TRUE, exclude_from_grid |-> FALSE]

\* roster with n_mon monitors first, then in-play traders (the last one in scope a
\* pre-match trader when there are three or more in scope), then employees out of scope
Roster(n_mon, n_in) ==
    [e \in Employees |->
        IF e <= n_mon THEN InProfile(MONITOR_TRADER)
        ELSE IF e <= n_in
        THEN (IF e = n_in /\ n_in >= 3 THEN InProfile(PREMATCH_TRADER)
              ELSE InProfile(INPLAY_TRADER))
        ELSE OutProfile(e)]

Rosters == {Roster(n_mon, n_in) : n_mon \in 0..NumEmployees, n_in \in 0..NumEmployees}

SettingsChoices ==
    [max_consecutive_days : {2, 3}, min_rest_hours : {8, 12}, weekend_scheduling : BOOLEAN]

BaseSettings ==
    [max_consecutive_days |-> 2, min_rest_hours |-> 12, weekend_scheduling |-> TRUE]

LowMinTraders == [c \in CategoryCodes |-> IF c \in {"AM", "MID"} THEN 1 ELSE 0]

MinTraderChoices == {SeedMinTraders, LowMinTraders}

\* history: employee 1 worked the last h days of the previous month
HistoryRows(h) ==
    {[employee |-> 1, date |-> d, code |-> "MON14", edit_source |-> ALGORITHM] :
        d \in (1 - h)..0}

\* at most one row entered for day 2 of the month before the first generation
MonthRowChoices ==
    {{}} \cup
    {{[employee |-> 1, date |-> 2, code |-> c, edit_source |-> src]} :
        c \in {"OFF", "MON14"}, src \in {"MANUAL"}}
    \cup
    {{[employee |-> NumEmployees, date |-> 2, code |-> c, edit_source |-> "SWAP"]} :
        c \in {"OFF", "MON14"}}

\* at most one leave request of employee 1: day 2, or the whole month and beyond
VacationChoices ==
    {{}} \cup
    {{[employee |-> 1, start_date |-> r[1], end_date |-> r[2], status |-> r[3]]} :
        r \in {<< 2, 2, "APPROVED" >>, << 0, NumDays + 1, "APPROVED" >>,
               << 0, NumDays + 1, "PENDING" >>}}

EventChoices ==
    {{}} \cup
    {{[date_start |-> 3, has_end |-> TRUE, date_end |-> 4, priority |-> p]} : p \in {1, 6}}

Deviations(s, m, h, rows, vacs, evs) ==
    (IF s.max_consecutive_days # BaseSettings.max_consecutive_days THEN 1 ELSE 0)
    + (IF s.min_rest_hours # BaseSettings.min_rest_hours THEN 1 ELSE 0)
    + (IF s.weekend_scheduling # BaseSettings.weekend_scheduling THEN 1 ELSE 0)
    + (IF m # SeedMinTraders THEN 1 ELSE 0)
    + (IF h # 0 THEN 1 ELSE 0)
    + (IF rows # {} THEN 1 ELSE 0)
    + (IF vacs # {} THEN 1 ELSE 0)
    + (IF evs # {} THEN 1 ELSE 0)

MaxDeviations == 2

\* an invocation that has not started: the instance attributes of __init__
IdleInvocation ==
    [pc |-> "idle", traders |-> << >>, locked_cells |-> NoLocks,
     run_assignments |-> NoLocks, all_assignments |-> << >>,
     assignment_counts |-> ZeroCounts, off_counts |-> ZeroCounts,
     last_shift |-> NoShifts, cycle_positions |-> ZeroCounts,
     demand_map |-> NoDemand, day |-> 0, assignments |-> << >>,
     day_coverage |-> NoCoverage, assigned_traders |-> {}, available |-> << >>,
     need_off |-> {}, warnings |-> << >>, errors |-> << >>, decisions |-> << >>]

\* the state of an idle generator: no invocation started, no log written
\* no call of the cycle walk recorded
NoWalk == [trader |-> 0, applicable |-> << >>, pos |-> 0, shift |-> NoCode, called |-> FALSE]

\* nothing generated yet, no invocation running
InitRun ==
    /\ swaps = {}
    /\ logs = << >>
    /\ runs = 0
    /\ pc = "idle"
    /\ traders = << >>
    /\ locked_cells = NoLocks
    /\ run_assignments = NoLocks
    /\ all_assignments = << >>
    /\ assignment_counts = ZeroCounts
    /\ off_counts = ZeroCounts
    /\ last_shift = NoShifts
    /\ demand_map = NoDemand
    /\ day = 0
    /\ assignments = << >>
    /\ day_coverage = NoCoverage
    /\ assigned_traders = {}
    /\ available = << >>
    /\ need_off = {}
    /\ warnings = << >>
    /\ errors = << >>
    /\ decisions = << >>
    /\ alg_before = {}
    /\ results = << >>
    /\ starts = << >>
    /\ parked = IdleInvocation

InitLocals ==
    /\ walk = NoWalk
    /\ cycle_positions = ZeroCounts
    /\ InitRun

\* the seeded deployment: every shift type of the catalog is active
Init ==
    /\ inactive_codes = {}
    /\ employees \in Rosters
    /\ \E s \in SettingsChoices, m \in MinTraderChoices, h \in 0..MaxHistory,
          rows \in MonthRowChoices, vacs \in VacationChoices, evs \in EventChoices :
        /\ Deviations(s, m, h, rows, vacs, evs) <= MaxDeviations
        /\ settings = s
        /\ cat_min_traders = m
        /\ db = HistoryRows(h) \cup rows
        /\ vacations = vacs
        /\ events = evs
    /\ InitLocals

\* a deployment whose catalog may have lost the VAC shift type
InactiveChoices == {{}, {"VAC"}}

\* a row left in the month by an earlier generation
LeftoverRowChoices ==
    {{[employee |-> 1, date |-> 2, code |-> "MON14", edit_source |-> ALGORITHM]}}

\* events of every shape the query of _compute_demand_map returns: ending inside
\* or after the month, without end date, started before the month
EventPool ==
    {[date_start |-> 3, has_end |-> TRUE, date_end |-> 4, priority |-> p] : p \in {1, 3}}
    \cup {[date_start |-> 4, has_end |-> FALSE, date_end |-> 0, priority |-> 10],
          [date_start |-> 0, has_end |-> FALSE, date_end |-> 0, priority |-> 1],
          [date_start |-> 0, has_end |-> TRUE, date_end |-> NumDays + 1, priority |-> 10]}

MaxEvents == 2

WideEventChoices == {evs \in SUBSET EventPool : Cardinality(evs) <= MaxEvents}

\* the same deployment with the wider choice of catalog, rows and events
InitWide ==
    /\ inactive_codes \in InactiveChoices
    /\ employees \in Rosters
    /\ \E s \in SettingsChoices, m \in MinTraderChoices, h \in 0..MaxHistory,
          rows \in MonthRowChoices \cup LeftoverRowChoices,
          vacs \in VacationChoices, evs \in WideEventChoices :
        /\ Deviations(s, m, h, rows, vacs, evs)
             + (IF inactive_codes # {} THEN 1 ELSE 0) < MaxDeviations
        /\ settings = s
        /\ cat_min_traders = m
        /\ db = HistoryRows(h) \cup rows
        /\ vacations = vacs
        /\ events = evs
    /\ InitLocals

(***************************************************************************)
(* generate(), step by step.                                               *)
(***************************************************************************)
\* what generate() and the operations on its tables never touch
Aside == << walk, swaps >>
Inputs == << inactive_codes, employees, settings, cat_min_traders, vacations, events >>
Trackers == << assignment_counts, off_counts, last_shift, cycle_positions >>
DayLocals == << assignments, day_coverage, assigned_traders, available, need_off >>

ResetLocals ==
    /\ traders' = << >>
    /\ locked_cells' = NoLocks
    /\ run_assignments' = NoLocks
    /\ all_assignments' = << >>
    /\ assignment_counts' = ZeroCounts
    /\ off_counts' = ZeroCounts
    /\ last_shift' = NoShifts
    /\ cycle_positions' = ZeroCounts
    /\ demand_map' = NoDemand
    /\ day' = 0
    /\ assignments' = << >>
    /\ day_coverage' = NoCoverage
    /\ assigned_traders' = {}
    /\ available' = << >>
    /\ need_off' = {}
    /\ warnings' = << >>
    /\ errors' = << >>
    /\ decisions' = << >>

\* no trader in scope: one error, a FAILED log, nothing written
GenerateEmptyRoster ==
    /\ pc = "idle"
    /\ runs < MaxRuns
    /\ GetActiveTraders = << >>
    /\ runs' = runs + 1
    /\ logs' = Append(logs, CreateLog(0, 0, 0, << >>, << "No hay traders activos disponibles." >>, << >>))
    /\ alg_before' = AlgorithmRowsOfMonth(db)
    /\ starts' = Append(starts, [db |-> db, vacations |-> vacations])
    /\ UNCHANGED << Aside, Inputs, parked, db, pc, traders, locked_cells, run_assignments,
                    all_assignments, Trackers, demand_map, day, DayLocals,
                    warnings, errors, decisions, results >>

\* last_shift seeded from the prior history
SeedLastShift(e) ==
    IF LoadPriorHistory(e) # << >>
    THEN LoadPriorHistory(e)[Len(LoadPriorHistory(e))]
    ELSE NoCode

\* index of a code in a cycle, from 0; the code occurs in it
CycleIndex(cycle, code) == (CHOOSE i \in DOMAIN cycle : cycle[i] = code /\ \A j \in 1..(i - 1) : cycle[j] # code) - 1

SeedCyclePositionSame(e) ==
    LET hist == LoadPriorHistory(e)
        cycle == cycles(Role(e))
    IN IF hist # << >> /\ cycle # << >> /\ hist[Len(hist)] \in Range(cycle)
       THEN CycleIndex(cycle, hist[Len(hist)])
       ELSE 0

\* cycle position seeded from the prior history
SeedCyclePosition(e) ==
    LET hist == LoadPriorHistory(e)
        cycle == cycles(Role(e))
    IN IF hist # << >> /\ cycle # << >> /\ hist[Len(hist)] \in Range(cycle)
       THEN (CycleIndex(cycle, hist[Len(hist)]) + 1) % Len(cycle)
       ELSE 0

LoadDecisions(trs) ==
    (IF HistoryTraders(trs) # {}
     THEN << Decision("LAYER1 CONTINUITY", NoCategory, 0, 0, Cardinality(HistoryTraders(trs))) >>
     ELSE << >>)
    \o (IF InStCache("VAC")
        THEN [i \in 1..Cardinality(ApprovedVacations(trs)) |->
                 Decision("LAYER2 VAC LOCK", NoCategory, 0, 0, 0)]
        ELSE << >>)
    \o (IF VacationCellCount(trs) > 0
        THEN << Decision("LAYER2 TOTAL", NoCategory, 0, 0, VacationCellCount(trs)) >>
        ELSE << >>)
    \o (IF PreservedCount(trs, LockApprovedVacations(trs)) > 0
        THEN << Decision("EXISTING", NoCategory, 0, 0,
                         PreservedCount(trs, LockApprovedVacations(trs))) >>
        ELSE << >>)

\* base data, Layer 1, Layer 2 and the preserved rows: everything read before the delete
GenerateLoad ==
    /\ pc = "idle"
    /\ runs < MaxRuns
    /\ GetActiveTraders # << >>
    /\ runs' = runs + 1
    /\ pc' = "cleanup"
    /\ traders' = GetActiveTraders
    /\ locked_cells' = LockExistingSchedules(GetActiveTraders,
                                             LockApprovedVacations(GetActiveTraders))
    /\ last_shift' = [e \in Employees |->
                        IF e \in Range(GetActiveTraders) THEN SeedLastShift(e) ELSE NoCode]
    /\ cycle_positions' = [e \in Employees |->
                        IF e \in Range(GetActiveTraders) THEN SeedCyclePosition(e) ELSE 0]
    /\ warnings' = IF InStCache("VAC") THEN << >>
                   ELSE << "ShiftType 'VAC' no encontrado" >>
    /\ decisions' = LoadDecisions(GetActiveTraders)
    /\ alg_before' = AlgorithmRowsOfMonth(db)
    /\ starts' = Append(starts, [db |-> db, vacations |-> vacations])
    /\ UNCHANGED << Aside, Inputs, parked, db, logs, run_assignments, all_assignments,
                    assignment_counts, off_counts, demand_map, day, DayLocals,
                    errors, results >>

DemandDecisions ==
    (IF HighDemandDays # {}
     THEN << Decision("LAYER3 HIGH DEMAND", NoCategory, 0, 0, Cardinality(HighDemandDays)) >>
     ELSE << >>)
    \o (IF Cardinality(ConsideredEvents) > 0
        THEN << Decision("LAYER3 EVENTS", NoCategory, 0, 0, Cardinality(ConsideredEvents)) >>
        ELSE << >>)

\* the delete of the old algorithm rows, then Layer 3 and the per-day limits
GenerateCleanup ==
    /\ pc = "cleanup"
    /\ db' = db \ OldAlgorithmRows(traders)
    /\ demand_map' = ComputeDemandMap
    /\ decisions' = decisions
          \o (IF OldAlgorithmRows(traders) # {}
              THEN << Decision("CLEANUP", NoCategory, 0, 0,
                               Cardinality(OldAlgorithmRows(traders))) >>
              ELSE << >>)
          \o DemandDecisions
          \o << Decision("CONFIG", NoCategory, 0, 0, MaxOffPerDay) >>
    /\ day' = 1
    /\ pc' = "day_start"
    /\ UNCHANGED << Aside, Inputs, parked, logs, runs, traders, locked_cells, run_assignments,
                    all_assignments, Trackers, DayLocals, warnings, errors,
                    alg_before, starts, results >>

\* what a finished day leaves: the day's assignments join all_assignments
FinishDay(L) ==
    /\ all_assignments' = all_assignments \o L.assignments
    /\ run_assignments' = L.run_assignments
    /\ assignment_counts' = L.assignment_counts
    /\ off_counts' = L.off_counts
    /\ last_shift' = L.last_shift
    /\ cycle_positions' = L.cycle_positions
    /\ decisions' = L.decisions
    /\ assignments' = << >>
    /\ day_coverage' = NoCoverage
    /\ assigned_traders' = {}
    /\ available' = << >>
    /\ need_off' = {}
    /\ IF day < NumDays
       THEN day' = day + 1 /\ pc' = "day_start"
       ELSE day' = day /\ pc' = "save"

SetLocals(L) ==
    /\ assignments' = L.assignments
    /\ run_assignments' = L.run_assignments
    /\ assignment_counts' = L.assignment_counts
    /\ off_counts' = L.off_counts
    /\ last_shift' = L.last_shift
    /\ cycle_positions' = L.cycle_positions
    /\ day_coverage' = L.day_coverage
    /\ assigned_traders' = L.assigned_traders
    /\ available' = L.available
    /\ need_off' = L.need_off
    /\ decisions' = L.decisions

\* the traders not locked today, in roster order
Unlocked(d) == SelectSeq(traders, LAMBDA t : t \notin LockedTraders(d))

DayStartLocals ==
    [Locals EXCEPT !.assignments = << >>,
                   !.day_coverage = LockedCoverage(day),
                   !.assigned_traders = LockedTraders(day)]

\* a weekend day with weekend scheduling disabled: everybody not locked is OFF
DayWeekend ==
    /\ pc = "day_start"
    /\ WeekendSuppressed(day)
    /\ FinishDay(WeekendOff(DayStartLocals, day, 1))
    /\ UNCHANGED << Aside, Inputs, parked, db, logs, runs, traders, locked_cells, demand_map,
                    warnings, errors, alg_before, starts, results >>

\* coverage from locked cells, the traders that must rest, the fairness order
DayStart ==
    /\ pc = "day_start"
    /\ ~WeekendSuppressed(day)
    /\ SetLocals([DayStartLocals EXCEPT
          !.available = SortByFairness(<< >>, Unlocked(day)),
          !.need_off = {t \in Range(Unlocked(day)) : MustRest(t, day)}])
    /\ pc' = "monitor"
    /\ UNCHANGED << Aside, Inputs, parked, db, logs, runs, traders, locked_cells, all_assignments,
                    demand_map, day, warnings, errors, alg_before, starts, results >>

\* Layer 5
DayMonitorRule ==
    /\ pc = "monitor"
    /\ SetLocals(MonitorRule(Locals, day, 1))
    /\ pc' = "coverage"
    /\ UNCHANGED << Aside, Inputs, parked, db, logs, runs, traders, locked_cells, all_assignments,
                    demand_map, day, warnings, errors, alg_before, starts, results >>

\* phase 1
DayCoverage ==
    /\ pc = "coverage"
    /\ SetLocals(CoveragePhase(Locals, day, 1))
    /\ pc' = "remaining"
    /\ UNCHANGED << Aside, Inputs, parked, db, logs, runs, traders, locked_cells, all_assignments,
                    demand_map, day, warnings, errors, alg_before, starts, results >>

\* phase 2 and the final guarantee
DayRemaining ==
    /\ pc = "remaining"
    /\ FinishDay(GuaranteePhase(
          RemainingPhase(Locals, day, available, LockedOffToday(day)), day, 1))
    /\ UNCHANGED << Aside, Inputs, parked, db, logs, runs, traders, locked_cells, demand_map,
                    warnings, errors, alg_before, starts, results >>

ScheduledTraders(rows) == Cardinality({rows[i].employee : i \in DOMAIN rows})

\* bulk save and the log of a run that completed
GenerateSave ==
    /\ pc = "save"
    /\ db' = BulkCreate(db, all_assignments)
    /\ logs' = Append(logs, CreateLog(Len(all_assignments), ScheduledTraders(all_assignments),
                                      Cardinality(ConsideredEvents), warnings, errors, decisions))
    /\ results' = Append(results, AlgorithmRowsOfMonth(db'))
    /\ pc' = "idle"
    /\ ResetLocals
    /\ UNCHANGED << Aside, Inputs, parked, runs, alg_before, starts >>

Next ==
    \/ GenerateEmptyRoster
    \/ GenerateLoad
    \/ GenerateCleanup
    \/ DayWeekend
    \/ DayStart
    \/ DayMonitorRule
    \/ DayCoverage
    \/ DayRemaining
    \/ GenerateSave

Spec == Init /\ [][Next]_vars

SpecWide == InitWide /\ [][Next]_vars

(***************************************************************************)
(* Fault model: an exception raised inside generate by one of its database *)
(* accesses: the loading queries and the delete (pc = "cleanup"), the      *)
(* lookups of the constraint checkers at the start of a day, the bulk      *)
(* insert.  The except clause records it and the log is written; nothing   *)
(* is rolled back, generate opens no transaction.  The fault is injected   *)
(* into the last invocation the model follows; the earlier ones provide    *)
(* the rows it finds.                                                      *)
(***************************************************************************)
FaultPoints == {"cleanup", "day_start", "save"}

GenerateFailSilent ==
    /\ pc \in FaultPoints
    /\ runs = MaxRuns
    /\ pc' = "idle"
    /\ ResetLocals
    /\ UNCHANGED << Aside, Inputs, parked, db, logs, runs, alg_before, starts, results >>

GenerateFail ==
    /\ pc \in FaultPoints
    /\ runs = MaxRuns
    /\ logs' = Append(logs, CreateLog(0, 0,
                   IF pc = "cleanup" THEN 0 ELSE Cardinality(ConsideredEvents),
                   warnings, errors \o << "Error interno", "traceback" >>, decisions))
    /\ pc' = "idle"
    /\ ResetLocals
    /\ UNCHANGED << Aside, Inputs, parked, db, runs, alg_before, starts, results >>

\* an exception while the base data is loaded (lines 85-90): nothing is cached yet
GenerateFailLoading ==
    /\ pc = "idle"
    /\ runs = MaxRuns - 1
    /\ runs' = runs + 1
    /\ logs' = Append(logs, CreateLog(0, 0, 0, << >>,
                   << "Error interno", "traceback" >>, << >>))
    /\ alg_before' = AlgorithmRowsOfMonth(db)
    /\ starts' = Append(starts, [db |-> db, vacations |-> vacations])
    /\ UNCHANGED << Aside, Inputs, parked, db, pc, traders, locked_cells, run_assignments,
                    all_assignments, Trackers, demand_map, day, DayLocals,
                    warnings, errors, decisions, results >>

NextFault == Next \/ GenerateFail \/ GenerateFailLoading

SpecFault == Init /\ [][NextFault]_vars

(***************************************************************************)
(* The other operations on the tables the generator reads and writes: the  *)
(* clear_schedules command and the leave request endpoints.  They run      *)
(* between invocations of generate.                                        *)
(***************************************************************************)
RunState == << traders, locked_cells, run_assignments, all_assignments, Trackers,
               demand_map, day, DayLocals, warnings, errors, decisions >>

\* --month/--year: not given, or the generated month
ClearScopes == {"all", "month"}

InClearScope(scope, d) == scope = "all" \/ d \in MonthDays

\* qs: the Schedule rows the command deletes
ClearedRows(scope, algo_only) ==
    {r \in db : /\ InClearScope(scope, r.date)
                /\ (algo_only => r.edit_source = ALGORITHM)}

\* log_qs: every log of the model is a log of the generated month
LogsInScope(scope) == logs

LogsAfterClearAny(scope, skip_logs) ==
    IF LogsInScope(scope) # << >> THEN << >> ELSE logs

\* the logs left by the command: those in scope are deleted unless --no-logs
LogsAfterClear(scope, skip_logs) ==
    IF ~skip_logs /\ LogsInScope(scope) # << >> THEN << >> ELSE logs

\* clear_schedules.handle
ClearSchedules(scope, algo_only, skip_logs) ==
    /\ pc = "idle"
    /\ db' = db \ ClearedRows(scope, algo_only)
    /\ logs' = LogsAfterClear(scope, skip_logs)
    /\ UNCHANGED << Aside, Inputs, parked, runs, pc, RunState, alg_before, starts, results >>

\* VacationViewSet.approve: a pending request is approved or rejected
VacationProcess(v, action_val) ==
    /\ pc = "idle"
    /\ v \in vacations
    /\ v.status = "PENDING"
    /\ action_val \in {"approve", "reject"}
    /\ vacations' = (vacations \ {v}) \cup
           {[v EXCEPT !.status = IF action_val = "approve" THEN "APPROVED" ELSE "REJECTED"]}
    /\ UNCHANGED << Aside, inactive_codes, employees, settings, cat_min_traders, events, parked,
                    db, logs, runs, pc, RunState, alg_before, starts, results >>

\* VacationViewSet (ModelViewSet) destroy: a request is deleted
VacationDestroy(v) ==
    /\ pc = "idle"
    /\ v \in vacations
    /\ vacations' = vacations \ {v}
    /\ UNCHANGED << Aside, inactive_codes, employees, settings, cat_min_traders, events, parked,
                    db, logs, runs, pc, RunState, alg_before, starts, results >>

NextOps ==
    \/ Next
    \/ \E scope \in ClearScopes, algo_only \in BOOLEAN, skip_logs \in BOOLEAN :
          ClearSchedules(scope, algo_only, skip_logs)
    \/ \E v \in vacations, action_val \in {"approve", "reject"} : VacationProcess(v, action_val)
    \/ \E v \in vacations : VacationDestroy(v)

\* a working row entered by hand on day 2
ManualRowChoices ==
    {rows \in MonthRowChoices :
        \E r \in rows : r.edit_source = "MANUAL" /\ r.code # "OFF"}

\* the deployments the operations are exercised on: nobody in scope or one
\* monitor with in-play traders, weekend scheduling on or off, history in the
\* previous month, at most one row entered by hand and one leave request
InitOps ==
    /\ inactive_codes = {}
    /\ employees \in {Roster(0, 0), Roster(1, NumEmployees)}
    /\ settings \in {BaseSettings, [BaseSettings EXCEPT !.weekend_scheduling = FALSE]}
    /\ cat_min_traders = SeedMinTraders
    /\ \E rows \in {{}} \cup ManualRowChoices : db = HistoryRows(MaxHistory) \cup rows
    /\ vacations \in VacationChoices
    /\ events = {}
    /\ InitLocals

SpecOps == InitOps /\ [][NextOps]_vars

(***************************************************************************)
(* Two invocations of generate for the same month, without a lock.  One    *)
(* runs in the variables of the generator, the other one is parked; they   *)
(* change places between database accesses: before the load, before the    *)
(* delete, before the bulk insert.  The day loop touches no table.         *)
(***************************************************************************)
SwitchPoints == {"idle", "cleanup", "save"}

RunningInvocation ==
    [pc |-> pc, traders |-> traders, locked_cells |-> locked_cells,
     run_assignments |-> run_assignments, all_assignments |-> all_assignments,
     assignment_counts |-> assignment_counts, off_counts |-> off_counts,
     last_shift |-> last_shift, cycle_positions |-> cycle_positions,
     demand_map |-> demand_map, day |-> day, assignments |-> assignments,
     day_coverage |-> day_coverage, assigned_traders |-> assigned_traders,
     available |-> available, need_off |-> need_off, warnings |-> warnings,
     errors |-> errors, decisions |-> decisions]

Resume(inv) ==
    /\ pc' = inv.pc
    /\ traders' = inv.traders
    /\ locked_cells' = inv.locked_cells
    /\ run_assignments' = inv.run_assignments
    /\ all_assignments' = inv.all_assignments
    /\ assignment_counts' = inv.assignment_counts
    /\ off_counts' = inv.off_counts
    /\ last_shift' = inv.last_shift
    /\ cycle_positions' = inv.cycle_positions
    /\ demand_map' = inv.demand_map
    /\ day' = inv.day
    /\ assignments' = inv.assignments
    /\ day_coverage' = inv.day_coverage
    /\ assigned_traders' = inv.assigned_traders
    /\ available' = inv.available
    /\ need_off' = inv.need_off
    /\ warnings' = inv.warnings
    /\ errors' = inv.errors
    /\ decisions' = inv.decisions

\* the scheduler takes the running invocation off and lets the other one go on
Switch ==
    /\ pc \in SwitchPoints
    /\ parked.pc \in SwitchPoints
    /\ parked # RunningInvocation
    /\ parked' = RunningInvocation
    /\ Resume(parked)
    /\ UNCHANGED << Aside, Inputs, db, logs, runs, alg_before, starts, results >>

\* the uniqueness constraint of the Schedule table: one row per (employee, date)
ScheduleUnique(table) ==
    \A r1, r2 \in table :
        (r1.employee = r2.employee /\ r1.date = r2.date) => r1 = r2

NextRace == Next \/ Switch

\* the deployments of InitOps; their Schedule table satisfies the constraint
InitRace == InitOps /\ ScheduleUnique(db)

SpecRace == InitRace /\ [][NextRace]_vars

(***************************************************************************)
(* Vocabulary of the properties.                                           *)
(***************************************************************************)
\* generate has returned at least once and none is running
Returned == pc = "idle" /\ logs # << >>

LastLog == logs[Len(logs)]

\* the last invocation ran to its end
Completed == Returned /\ LastLog.status # "FAILED"

RowsAt(e, d) == {r \in db : r.employee = e /\ r.date = d}

OnApprovedLeave(e, d) ==
    \E v \in vacations : /\ v.employee = e
                         /\ v.status = "APPROVED"
                         /\ v.start_date <= d
                         /\ d <= v.end_date

PreservedCell(e, d) == \E r \in RowsAt(e, d) : r.edit_source # ALGORITHM

LockedCell(e, d) == OnApprovedLeave(e, d) \/ PreservedCell(e, d)

InScopeEmployees == {e \in Employees : InScope(e)}

UnlockedCells == {c \in InScopeEmployees \X MonthDays : ~LockedCell(c[1], c[2])}

\* C1  Completeness: after generate has returned for a non-empty roster, every
\* cell (in-scope trader, day of the month) that is not locked by approved leave
\* or by a preserved non-algorithm row holds exactly one Schedule row; with no
\* locked cell at all the month holds traders x days rows.
C1Completeness ==
    (Returned /\ InScopeEmployees # {}) =>
        /\ \A c \in UnlockedCells : Cardinality(RowsAt(c[1], c[2])) = 1
        /\ (UnlockedCells = InScopeEmployees \X MonthDays =>
               Cardinality({r \in db : r.date \in MonthDays /\ InScope(r.employee)}) =
                   Cardinality(InScopeEmployees) * NumDays)

C1Witness ==
    /\ Returned
    /\ Cardinality(InScopeEmployees) = NumEmployees
    /\ UnlockedCells # InScopeEmployees \X MonthDays
    /\ \E c \in UnlockedCells : \E r \in RowsAt(c[1], c[2]) : r.code = "OFF"
    /\ \E c \in UnlockedCells : \E r \in RowsAt(c[1], c[2]) : r.code # "OFF"

C3NonAlgorithmRowsKept ==
    [][\A r \in db : r.edit_source # ALGORITHM => r \in db']_vars

C3Witness ==
    /\ Returned
    /\ runs = MaxRuns
    /\ \E r \in db : r.edit_source = "SWAP" /\ r.date \in MonthDays /\ InScope(r.employee)
    /\ \E r \in db : r.edit_source = ALGORITHM /\ r.date \in MonthDays

\* C4  Idempotent regeneration: consecutive invocations with nothing changed in
\* between leave the same set of ALGORITHM rows of the month, and no
\* (employee, date) pair twice.
C4Idempotent ==
    /\ \A i \in 1..(Len(results) - 1) : results[i + 1] = results[i]
    /\ \A i \in DOMAIN results : \A r1, r2 \in results[i] :
          (r1.employee = r2.employee /\ r1.date = r2.date) => r1 = r2

C4Witness ==
    /\ Len(results) = 2
    /\ results[1] # {}
    /\ \E r \in results[2] : r.code # "OFF"

\* the code of a trader's cell during an invocation: the lock, else the assignment
CellCode(t, d) ==
    IF locked_cells[t][d] # NoCode THEN locked_cells[t][d] ELSE run_assignments[t][d]

CategoryOfCode(code) == IF InStCache(code) THEN StCache(code).category ELSE NoCategory

IsWorkingCode(code) == InStCache(code) /\ StCache(code).is_working_shift

WorkingOn(e, d) == \E r \in RowsAt(e, d) : IsWorkingCode(r.code)

AnchorCats == Range(MonitorTargetCats)

\* the days b - max_consecutive_days .. b are all working days of e, none of them locked
OverlongRun(e, b) ==
    LET a == b - settings.max_consecutive_days
    IN /\ \A d \in a..b : WorkingOn(e, d)
       /\ \A d \in a..b : d \in MonthDays => ~LockedCell(e, d)

\* C5  Consecutive-day bound: after generation no trader has more than
\* max_consecutive_days consecutive working days ending in the month (counting the
\* prior-month window), unless a locked cell lies inside that run; high-demand days
\* and monitors included.
C5ConsecutiveBoundClaim ==
    Completed =>
        \A e \in InScopeEmployees, b \in MonthDays : ~OverlongRun(e, b)

\* the shift leaves at least min_rest_hours before the earliest start of the next day
RestOk(code) ==
    \/ code \in RestCodes
    \/ ~InStCache(code)
    \/ StCache(code).end_hour = NoTime
    \/ RestAfter(StCache(code).end_hour) >= settings.min_rest_hours

\* e has an engine-made working row on d although the row of d - 1 leaves too little rest
ShortRest(e, d) ==
    /\ \E r \in RowsAt(e, d) : r.edit_source = ALGORITHM /\ IsWorkingCode(r.code)
    /\ \E p \in RowsAt(e, d - 1) : ~RestOk(p.code)

CategoryCount(c, d) ==
    Cardinality({t \in Range(traders) :
        IsWorkingCode(CellCode(t, d)) /\ CategoryOfCode(CellCode(t, d)) = c})

\* phase 1 may take trader t for category c on the current day
CoverageCandidate(t, c) ==
    /\ t \in Range(available)
    /\ (t \in need_off => IsHighDemand(day))
    /\ CatShiftsFor(c, t) # << >>

\* the coverage phase left category c at its minimum, or with nobody to take
CategoryServed(c) ==
    \/ CategoryCount(c, day) >= cat_min_traders[c]
    \/ ~\E t \in Range(available) : CoverageCandidate(t, c)

CategoryIndex(c) == CHOOSE i \in DOMAIN CategoryOrder : CategoryOrder[i] = c

\* C7  Category coverage fill: on a day that is not a suppressed weekend, after the
\* coverage phase every category has at least min_traders working shifts (locked
\* cells included) or no still-unassigned trader with an applicable shift of it is
\* left who is not forced to rest (on a high-demand day: nobody at all); a trader the phase took never had more total assignments
\* than one it left who could have served the same category; and a trader taken
\* for a category could not have served an earlier category still below its minimum.
C7CoverageFill ==
    [][(pc = "coverage" /\ pc' = "remaining") =>
        /\ ~WeekendSuppressed(day)
        /\ \A c \in CategoryCodes : CategoryServed(c)'
        /\ \A t1 \in Range(available) \ Range(available') :
              LET c == CategoryOfCode(run_assignments'[t1][day])
              IN /\ \A t2 \in Range(available') :
                       CoverageCandidate(t2, c) =>
                           assignment_counts[t1] <= assignment_counts[t2]
                 /\ \A c0 \in CategoryCodes :
                       (CategoryIndex(c0) < CategoryIndex(c) /\ CatShiftsFor(c0, t1) # << >>)
                           => CategoryCount(c0, day)' >= cat_min_traders[c0]
    ]_vars

C7Witness ==
    /\ pc = "remaining"
    /\ cat_min_traders["AM"] = 3
    /\ CategoryCount("AM", day) = 3
    /\ CategoryCount("MID", day) < cat_min_traders["MID"]
    /\ \E t \in Range(traders) : Role(t) # MONITOR_TRADER /\ IsWorkingCode(run_assignments[t][day])

\* monitors of the running invocation that hold a shift of category c on day d
MonitorsIn(c, d) ==
    {m \in MonitorTraders : CategoryOfCode(CellCode(m, d)) = c}

C9ExactlyOneMonitorClaim ==
    pc = "save" =>
        \A d \in MonthDays, c \in AnchorCats : Cardinality(MonitorsIn(c, d)) = 1

\* C10  Atomic regeneration: when generate fails after it has started,
\* the ALGORITHM rows the month held before the invocation are still there.
C10AtomicClaim ==
    (Returned /\ LastLog.status = "FAILED" /\ InScopeEmployees # {}) =>
        alg_before \subseteq db

(***************************************************************************)
(* Error paths and the generation log.                                     *)
(***************************************************************************)
\* no active, non-excluded employee with a trader role
EmptyRoster ==
    \A e \in Employees :
        \/ ~employees[e].is_active
        \/ employees[e].exclude_from_grid
        \/ employees[e].role \notin TraderRoles

\* this step is the start of an invocation of generate
InvocationStarts == pc = "idle" /\ runs' = runs + 1

\* C11  Empty roster is fatal and write-free: an invocation on a roster without
\* any active, non-excluded trader records exactly one error and returns a log
\* with status FAILED and total_assignments 0, and the Schedule table is left
\* as it was, the ALGORITHM rows of the month included.
C11EmptyRosterWriteFree ==
    [][(InvocationStarts /\ EmptyRoster) =>
          /\ db' = db
          /\ pc' = "idle"
          /\ Len(logs') = Len(logs) + 1
          /\ logs'[Len(logs')].status = "FAILED"
          /\ logs'[Len(logs')].total_assignments = 0
          /\ Len(logs'[Len(logs')].errors) = 1]_vars

C11Witness ==
    /\ Returned
    /\ EmptyRoster
    /\ LastLog.status = "FAILED"
    /\ AlgorithmRowsOfMonth(db) # {}

DiagnosticKinds == {"COVERAGE", "LAYER5", "FALLBACK"}

HasDecision(l, kinds) ==
    \E k \in DOMAIN l.algorithm_decisions : l.algorithm_decisions[k].kind \in kinds

\* C13  Log status mapping: the status of a log is FAILED iff its error list is
\* non-empty, PARTIAL iff it has no error and at least one warning, SUCCESS
\* otherwise; a coverage shortfall, a missing anchor monitor or a fallback
\* assignment never aborts the run and never gives FAILED (without an exception,
\* only the empty roster does).
C13StatusMapping ==
    \A i \in DOMAIN logs :
        /\ (logs[i].status = "FAILED") = (logs[i].errors # << >>)
        /\ (logs[i].status = "PARTIAL") =
               (logs[i].errors = << >> /\ logs[i].warnings # << >>)
        /\ (logs[i].status = "SUCCESS") =
               (logs[i].errors = << >> /\ logs[i].warnings = << >>)
        /\ HasDecision(logs[i], DiagnosticKinds) => logs[i].status # "FAILED"
        /\ ~EmptyRoster => logs[i].status # "FAILED"

\* a run without the VAC shift type that fell short of a minimum and found no
\* monitor for a category wrote its rows and ended PARTIAL
C13Witness ==
    /\ Returned
    /\ LastLog.status = "PARTIAL"
    /\ HasDecision(LastLog, {"COVERAGE"})
    /\ HasDecision(LastLog, {"LAYER5"})
    /\ LastLog.total_assignments > 0

\* C14  Every invocation of generate creates exactly one log record, whether it
\* completes, stops on the empty roster or catches an exception: the logs
\* written are as many as the invocations that returned.
C14OneLogPerInvocation ==
    /\ pc = "idle" => Len(logs) = runs
    /\ pc # "idle" => Len(logs) = runs - 1

\* a completed invocation followed by one that caught an exception
C14Witness ==
    /\ Returned
    /\ runs = MaxRuns
    /\ Len(logs) = MaxRuns
    /\ logs[1].status = "SUCCESS"
    /\ LastLog.status = "FAILED"

(***************************************************************************)
(* Demand.                                                                 *)
(***************************************************************************)
\* the event covers the day: inclusive range, the start date only without end date
EventCovers(ev, d) ==
    IF ev.has_end THEN ev.date_start <= d /\ d <= ev.date_end ELSE d = ev.date_start

\* the day loop is at a day, with the demand map computed
InDayLoop == pc \in {"day_start", "monitor", "coverage", "remaining"}

\* C15  The day assignment treats a day as high demand iff at least one event
\* with priority <= 2 is active on that day.
C15HighDemandClaim ==
    InDayLoop =>
        (IsHighDemand(day) <=> \E ev \in events : ev.priority <= 2 /\ EventCovers(ev, day))

RECURSIVE WeightSum(_)
WeightSum(evs) ==
    IF evs = {} THEN 0
    ELSE LET ev == CHOOSE x \in evs : TRUE
         IN (11 - ev.priority) + WeightSum(evs \ {ev})

\* C16  Demand map: the demand of each day is the sum of 11 - priority over the
\* events whose inclusive date range contains the day, an event without end
\* date counting on its start date only; a day without active event has 0.
C16DemandMap ==
    InDayLoop =>
        \A d \in MonthDays :
            demand_map[d] = WeightSum({ev \in events : EventCovers(ev, d)})

\* a priority-1 event on days 3-4 and a priority-10 event without end date on day 4
C16Witness ==
    /\ InDayLoop
    /\ \E ev \in events : ~ev.has_end /\ ev.date_start = 4 /\ ev.priority = 10
    /\ demand_map[3] = 10
    /\ demand_map[4] = 11
    /\ demand_map[5] = 0
    /\ demand_map[1] = 0

(***************************************************************************)
(* Leave requests that are not approved.                                   *)
(***************************************************************************)
ApprovedOf(vs) == {v \in vs : v.status = "APPROVED"}

\* two invocations started from states that differ at most in the leave requests
\* whose status is not APPROVED (the other tables do not change in SpecOps)
SameButNonApprovedLeave(i, j) ==
    /\ starts[i].db = starts[j].db
    /\ ApprovedOf(starts[i].vacations) = ApprovedOf(starts[j].vacations)

\* the ALGORITHM rows of the month left by invocation i
RowsOfRun(i) == IF EmptyRoster THEN {} ELSE results[i]

\* every invocation has returned and no log has been deleted since the first one
AllLogsKept == pc = "idle" /\ Len(logs) = Len(starts)

\* C17  Non-approved leave is invisible: two invocations of generate started
\* from states that differ only in leave requests whose status is not APPROVED
\* leave the same Schedule rows and logs with the same status and counts.
C17NonApprovedLeaveInvisible ==
    AllLogsKept =>
        \A i, j \in DOMAIN starts :
            SameButNonApprovedLeave(i, j) =>
                /\ RowsOfRun(i) = RowsOfRun(j)
                /\ logs[i].status = logs[j].status
                /\ logs[i].total_assignments = logs[j].total_assignments
                /\ logs[i].traders_scheduled = logs[j].traders_scheduled
                /\ logs[i].events_considered = logs[j].events_considered

\* generated with a pending request for the whole month, cleared, the request
\* rejected or deleted, and generated again from the same tables
C17Witness ==
    /\ AllLogsKept
    /\ Len(starts) = 2
    /\ SameButNonApprovedLeave(1, 2)
    /\ \E v \in starts[1].vacations : v.status = "PENDING" /\ v \notin starts[2].vacations
    /\ Len(results) = 2
    /\ \E r \in results[1] : r.employee = 1 /\ r.code # "OFF"

(***************************************************************************)
(* The log table under generate and clear_schedules.                       *)
(***************************************************************************)
\* every log of before the step is still there, unchanged
LogsKept == \A i \in DOMAIN logs : i \in DOMAIN logs' /\ logs'[i] = logs[i]

RunAssignments == all_assignments \o assignments

\* C20  Within one run the list of assignments holds no (employee, date) pair
\* twice and no locked cell (approved leave or preserved non-algorithm row), at
\* every point of the day loop: after the weekend suppression, the monitor
\* rule, the coverage fill, the remaining pass and the final fallback.
C20NoDuplicateNoLocked ==
    /\ \A i, j \in DOMAIN RunAssignments :
          (/\ RunAssignments[i].employee = RunAssignments[j].employee
           /\ RunAssignments[i].date = RunAssignments[j].date) => i = j
    /\ \A i \in DOMAIN RunAssignments :
          /\ locked_cells[RunAssignments[i].employee][RunAssignments[i].date] = NoCode
          /\ ~LockedCell(RunAssignments[i].employee, RunAssignments[i].date)

\* the day loop is over for a month with a locked cell, days filled by the
\* weekend suppression and days filled by the three passes
C20Witness ==
    /\ pc = "save"
    /\ \E t \in Range(traders), d \in MonthDays :
          locked_cells[t][d] # NoCode /\ LockedCell(t, d)
    /\ \E i \in DOMAIN all_assignments : all_assignments[i].code # "OFF"
    /\ \E d \in MonthDays : WeekendSuppressed(d)

(***************************************************************************)
(* Concurrent invocations.                                                 *)
(***************************************************************************)
\* no invocation is under way and at least one has run
AllFinished == pc = "idle" /\ parked.pc = "idle" /\ runs >= 1

\* C18  In every interleaving of two invocations of generate for the same month
\* without a lock, every reachable state of the Schedule table holds at most
\* one row per (employee, date), and once both have finished every unlocked
\* cell holds exactly one row, an ALGORITHM row.
C18RaceKeepsOneRowPerCell ==
    /\ ScheduleUnique(db)
    /\ (AllFinished /\ ~EmptyRoster) =>
          \A c \in UnlockedCells :
              /\ Cardinality(RowsAt(c[1], c[2])) = 1
              /\ \A r \in RowsAt(c[1], c[2]) : r.edit_source = ALGORITHM

\* both invocations have finished; the second one started before the first one
\* inserted its rows, so both deleted and both inserted
C18Witness ==
    /\ AllFinished
    /\ Len(starts) = 2
    /\ Len(results) = 2
    /\ Len(logs) = 2
    /\ results[1] # {}
    /\ AlgorithmRowsOfMonth(starts[2].db) = {}
    /\ logs[2].total_assignments > 0
    /\ UnlockedCells # InScopeEmployees \X MonthDays

(***************************************************************************)
(* The day assignment.                                                     *)
(***************************************************************************)
\* the day of the month is a Saturday or a Sunday
SaturdayOrSunday(d) == (FirstWeekday + d - 1) % 7 \in {5, 6}

\* the Schedule objects of the run for day d
AssignmentsOn(seq, d) == SelectSeq(seq, LAMBDA a : a.date = d)

\* C21  Weekend suppression: with weekend scheduling disabled, on a Saturday or
\* Sunday the day assignment gives OFF to every unlocked trader and a working
\* shift to nobody, whatever the demand, the minimums or the monitor rule; the
\* assignment count, the OFF count and the last shift of each such trader are
\* updated and the cycle positions stay as they were.
C21WeekendSuppression ==
    [][(pc = "day_start" /\ ~settings.weekend_scheduling /\ SaturdayOrSunday(day)) =>
          /\ \A t \in Range(traders) :
                IF locked_cells[t][day] = NoCode
                THEN /\ run_assignments'[t][day] = "OFF"
                     /\ assignment_counts'[t] = assignment_counts[t] + 1
                     /\ off_counts'[t] = off_counts[t] + 1
                     /\ last_shift'[t] = "OFF"
                ELSE /\ run_assignments'[t][day] = NoCode
                     /\ assignment_counts'[t] = assignment_counts[t]
                     /\ off_counts'[t] = off_counts[t]
                     /\ last_shift'[t] = last_shift[t]
          /\ cycle_positions' = cycle_positions
          /\ \A i \in DOMAIN all_assignments' :
                all_assignments'[i].date = day => all_assignments'[i].code = "OFF"
          /\ Len(AssignmentsOn(all_assignments', day)) =
                Cardinality({t \in Range(traders) : locked_cells[t][day] = NoCode})]_vars

\* a suppressed weekend day of high demand has passed: a monitor got OFF on it
C21Witness ==
    /\ pc \in {"day_start", "save"}
    /\ \E d \in MonthDays :
          /\ ~settings.weekend_scheduling
          /\ SaturdayOrSunday(d)
          /\ demand_map[d] >= 9
          /\ \E t \in Range(traders) :
                /\ Role(t) = MONITOR_TRADER
                /\ run_assignments[t][d] = "OFF"
          /\ cat_min_traders["AM"] > 0

(***************************************************************************)
(* Deployments in which an administrator has deactivated the three monitor *)
(* shift types: a monitor's rotation then holds no shift the monitor can   *)
(* take.                                                                   *)
(***************************************************************************)
MonitorShiftCodes == {"MON6", "MON12", "MON14"}

\* rows of trader 1 before the month: none; MON14 on the last MaxHistory days;
\* a shift and then OFF on the last day; one shift on the first day of the 7-day
\* window and nothing after; one shift on the day before the window
HistoryRow(d, code) == [employee |-> 1, date |-> d, code |-> code, edit_source |-> ALGORITHM]

HistoryChoices ==
    {{}, HistoryRows(MaxHistory),
     {HistoryRow(-1, "MON12"), HistoryRow(0, "OFF")},
     {HistoryRow(1 - LookbackDays, "MON6")},
     {HistoryRow(0 - LookbackDays, "MON6")}}

InitCatalog ==
    /\ inactive_codes \in {{}, MonitorShiftCodes}
    /\ employees \in {Roster(0, 0), Roster(1, NumEmployees), Roster(2, NumEmployees)}
    /\ settings \in {BaseSettings, [BaseSettings EXCEPT !.weekend_scheduling = FALSE]}
    /\ cat_min_traders \in {SeedMinTraders, LowMinTraders}
    /\ \E hist \in HistoryChoices, rows \in MonthRowChoices : db = hist \cup rows
    /\ vacations = {}
    /\ events \in EventChoices
    /\ InitLocals

SpecCatalog == InitCatalog /\ [][Next]_vars

\* OFFs present on the day when the i-th trader of the remaining pass is decided:
\* the locked OFF cells and the OFFs the pass gave to the traders before
OffTodayAt(i) ==
    Cardinality({u \in Range(traders) : locked_cells[u][day] = "OFF"})
    + Cardinality({j \in 1..(i - 1) : run_assignments'[available[j]][day] = "OFF"})

NewMonitors ==
    {t \in Range(available) : Role(t) = MONITOR_TRADER /\ run_assignments'[t][day] # NoCode}

NewCategory(t) == CategoryOfCode(run_assignments'[t][day])

\* C23  Anchor preference: for each anchor category the monitor rule assigns at
\* most one monitor (none when a locked cell already holds a monitor of the
\* category); it assigns a monitor who is forced to rest only if at that moment
\* no available monitor who is not forced to rest exists (all of them were taken
\* for the categories before); a forced-to-rest monitor assigned this way is
\* removed from the forced-rest set for the day.
C23AnchorPreference ==
    [][pc = "monitor" =>
          /\ \A cat \in AnchorCats :
                LET got == {t \in NewMonitors : NewCategory(t) = cat}
                IN /\ Cardinality(got) <= 1
                   /\ AlreadyHasMonitor(cat, day) => got = {}
          /\ \A t \in NewMonitors :
                /\ NewCategory(t) \in AnchorCats
                /\ t \in need_off =>
                      /\ t \notin need_off'
                      /\ \A u \in Range(available) :
                            (Role(u) = MONITOR_TRADER /\ u \notin need_off) =>
                               /\ u \in NewMonitors
                               /\ CategoryIndex(NewCategory(u)) < CategoryIndex(NewCategory(t))
          /\ \A t \in Range(available) \ NewMonitors :
                /\ run_assignments'[t][day] = NoCode
                /\ (t \in need_off) = (t \in need_off')]_vars

\* the monitor rule has just taken a rested monitor for one category and a
\* monitor at the limit of consecutive working days for a later one
C23Witness ==
    /\ pc = "coverage"
    /\ day > settings.max_consecutive_days
    /\ \E t, u \in MonitorTraders :
          /\ t # u
          /\ \A d \in (day - settings.max_consecutive_days)..day :
                IsWorkingCode(run_assignments[t][d])
          /\ t \notin need_off
          /\ IsWorkingCode(run_assignments[u][day])
          /\ ~IsWorkingCode(run_assignments[u][day - 1])
          /\ CategoryIndex(CategoryOfCode(run_assignments[u][day]))
                < CategoryIndex(CategoryOfCode(run_assignments[t][day]))

\* the trader has a shift on the day before d (of this run, or a row of the
\* table: a preserved row or history) that leaves less than the minimum rest
ShortRestYesterday(t, d) ==
    \E code \in ShiftCodes :
       /\ \/ (d - 1 \in MonthDays /\ run_assignments[t][d - 1] = code)
          \/ \E r \in db : r.employee = t /\ r.date = d - 1 /\ r.code = code
       /\ StCache(code).end_hour # NoTime
       /\ (24 - StCache(code).end_hour) + 6 < settings.min_rest_hours

\* C24  The rest-hours check looks at the day before only: a trader below the
\* limit of consecutive working days is forced to rest on day d only if the
\* trader has a shift on day d-1 with (24 - end hour) + 6 < min_rest_hours; an
\* older shift never forces rest.
C24RestOnlyAfterYesterdayClaim ==
    pc = "monitor" =>
       \A t \in need_off :
          \/ GetConsecutiveWorkDays(t, day) >= settings.max_consecutive_days
          \/ ShortRestYesterday(t, day)

(***************************************************************************)
(* The cycle walk on its own: one call of _pick_shift_from_cycle for a     *)
(* trader of each role, from every position of the rotation, with every    *)
(* list of at most MaxApplicable distinct shift types of the catalog.      *)
(***************************************************************************)
MaxApplicable == 2

ApplicableChoices ==
    {seq \in UNION {[1..k -> ShiftCodes] : k \in 0..MaxApplicable} :
        \A i, j \in DOMAIN seq : i # j => seq[i] # seq[j]}

InitWalk ==
    /\ inactive_codes = {}
    /\ employees = Roster(1, NumEmployees)
    /\ settings = BaseSettings
    /\ cat_min_traders = SeedMinTraders
    /\ db = {}
    /\ vacations = {}
    /\ events = {}
    /\ InitRun
    /\ \E t \in Employees, applicable \in ApplicableChoices :
          \E pos \in 0..(Len(cycles(Role(t))) - 1) :
             /\ walk = [NoWalk EXCEPT !.trader = t, !.applicable = applicable, !.pos = pos]
             /\ cycle_positions = [ZeroCounts EXCEPT ![t] = pos]

\* shift = self._pick_shift_from_cycle(trader, applicable, cycles, cycle_positions)
PickShift ==
    /\ ~walk.called
    /\ LET pick == PickShiftFromCycle(walk.trader, walk.applicable,
                                      cycle_positions[walk.trader])
       IN /\ walk' = [walk EXCEPT !.shift = pick.code, !.called = TRUE]
          /\ cycle_positions' = [cycle_positions EXCEPT ![walk.trader] = pick.pos]
    /\ UNCHANGED << swaps, Inputs, db, logs, runs, pc, traders, locked_cells, run_assignments,
                    all_assignments, assignment_counts, off_counts, last_shift, demand_map,
                    day, assignments, day_coverage, assigned_traders, available, need_off,
                    warnings, errors, decisions, alg_before, results, starts, parked >>

NextWalk == PickShift

SpecWalk == InitWalk /\ [][NextWalk]_vars

\* the rotation of the trader of the call, its length, and the offsets from the
\* position before the call at which the rotation holds an applicable code
WalkRotation == cycles(employees[walk.trader].role)
WalkHits ==
    {k \in 0..(Len(WalkRotation) - 1) :
        WalkRotation[((walk.pos + k) % Len(WalkRotation)) + 1] \in Range(walk.applicable)}
WalkFirstHit == CHOOSE k \in WalkHits : \A j \in WalkHits : k <= j

\* C25  Cycle walk: from position p of a rotation of length n, with a non-empty
\* applicable set, the walk returns the first applicable code met at p, p+1, ...
\* (mod n) and sets the position to one past it (mod n); when no code of the
\* rotation is applicable it returns the first applicable shift and leaves the
\* position as it was; the position stays in 0..n-1; with an empty applicable
\* set it returns nothing.
C25CycleWalk ==
    walk.called =>
       /\ cycle_positions[walk.trader] \in 0..(Len(WalkRotation) - 1)
       /\ IF walk.applicable = << >>
          THEN walk.shift = NoCode /\ cycle_positions[walk.trader] = walk.pos
          ELSE IF WalkHits = {}
          THEN walk.shift = walk.applicable[1] /\ cycle_positions[walk.trader] = walk.pos
          ELSE /\ walk.shift = WalkRotation[((walk.pos + WalkFirstHit) % Len(WalkRotation)) + 1]
               /\ cycle_positions[walk.trader] = (walk.pos + WalkFirstHit + 1) % Len(WalkRotation)

\* a walk that went around the end of the rotation, past a code that was not
\* applicable, and left the position at the start of the rotation or after it
C25Witness ==
    /\ walk.called
    /\ WalkHits # {}
    /\ WalkFirstHit > 0
    /\ walk.pos + WalkFirstHit + 1 >= Len(WalkRotation)
    /\ walk.shift \in Range(walk.applicable)

\* the days of the 7-day window before the month on which the trader has a row
WindowDays(t) == {d \in (1 - 7)..0 : \E r \in db : r.employee = t /\ r.date = d}

LastWindowCode(t) ==
    LET last == CHOOSE d \in WindowDays(t) : \A x \in WindowDays(t) : x <= d
    IN (CHOOSE r \in db : r.employee = t /\ r.date = last).code

IndexIn(rotation, code) == CHOOSE i \in 0..(Len(rotation) - 1) : rotation[i + 1] = code

MaxMonthDays == 31

WholeMonthLeave ==
    {[employee |-> 1, start_date |-> 0, end_date |-> NumDays + 1, status |-> "APPROVED"]}

\* the entries one day appends: lines 530-533, then lines 575-580
DayDiagnostics(d, mins) ==
    [i \in 1..Len(MonitorTargetCats) |-> Decision("LAYER5", MonitorTargetCats[i], 0, d, 0)]
    \o LET short == SelectSeq(CategoryOrder, LAMBDA c : mins[c] > 0)
       IN [i \in 1..Len(short) |-> Decision("COVERAGE", short[i], 0, d, 0)]

RECURSIVE DaysTrail(_, _, _)
DaysTrail(d, last, mins) ==
    IF d > last THEN << >> ELSE DayDiagnostics(d, mins) \o DaysTrail(d + 1, last, mins)

\* the trail before the day loop: Layer 2 and the CONFIG entry
TrailPreamble(month_length) ==
    << Decision("LAYER2 VAC LOCK", NoCategory, 0, 0, 0),
       Decision("LAYER2 TOTAL", NoCategory, 0, 0, month_length),
       Decision("CONFIG", NoCategory, 0, 0, 1) >>

InitLog ==
    /\ inactive_codes = {}
    /\ employees = Roster(1, 1)
    /\ settings \in {s \in SettingsChoices : s.weekend_scheduling}
    /\ cat_min_traders \in MinTraderChoices
    /\ db = {}
    /\ vacations = WholeMonthLeave
    /\ events = {}
    /\ logs = << >>
    /\ runs = 1
    /\ pc = "save"
    /\ traders = << 1 >>
    /\ locked_cells = [NoLocks EXCEPT ![1] = [d \in MonthDays |-> "VAC"]]
    /\ run_assignments = NoLocks
    /\ all_assignments = << >>
    /\ assignment_counts = ZeroCounts
    /\ off_counts = ZeroCounts
    /\ last_shift = NoShifts
    /\ cycle_positions = ZeroCounts
    /\ demand_map = [d \in MonthDays |-> 0]
    /\ day = NumDays
    /\ assignments = << >>
    /\ day_coverage = NoCoverage
    /\ assigned_traders = {}
    /\ available = << >>
    /\ need_off = {}
    /\ warnings = << >>
    /\ errors = << >>
    /\ \E month_length \in 1..MaxMonthDays :
          decisions = TrailPreamble(month_length)
                         \o DaysTrail(1, month_length, cat_min_traders)
    /\ alg_before = {}
    /\ results = << >>
    /\ starts = << [db |-> {}, vacations |-> WholeMonthLeave] >>
    /\ parked = IdleInvocation
    /\ walk = NoWalk
    /\ swaps = {}

NextLog == GenerateSave

SpecLog == InitLog /\ [][NextLog]_vars

\* C27  Diagnostics are never dropped: every fallback, coverage-shortfall and
\* missing-monitor entry the run recorded is in the decisions of the log written
\* for the run, however many entries the run produced.
C27DiagnosticsKeptClaim ==
    [][(pc = "save" /\ pc' = "idle") =>
          \A i \in DOMAIN decisions :
             decisions[i].kind \in DiagnosticKinds =>
                \E j \in DOMAIN logs'[Len(logs')].algorithm_decisions :
                   logs'[Len(logs')].algorithm_decisions[j] = decisions[i]]_vars

\* the rows a bulk save adds to the Schedule table
InsertedRows == db' \ db

\* C28  In every execution, also one interleaved with another invocation of
\* generate, total_assignments of the log equals the number of ALGORITHM rows the
\* invocation actually inserted for the month and traders_scheduled the number
\* of distinct employees among those rows.
C28LogCountsInsertedClaim ==
    [][(pc = "save" /\ Len(logs') = Len(logs) + 1) =>
          /\ logs'[Len(logs')].total_assignments = Cardinality(InsertedRows)
          /\ logs'[Len(logs')].traders_scheduled =
                Cardinality({r.employee : r \in InsertedRows})
          /\ \A r \in InsertedRows : r.edit_source = ALGORITHM /\ r.date \in MonthDays]_vars

(***************************************************************************)
(* Leave requests: VacationViewSet.create and VacationViewSet.approve for  *)
(* the employees of the roster, with ranges inside the first MaxLeaveDay   *)
(* days and at most MaxRequests requests in the table.                     *)
(***************************************************************************)
MaxLeaveDay == 3
MaxRequests == 2

\* Vacation.status of a request created without one
DefaultVacationStatus == "PENDING"

\* VacationCreateSerializer.validate: an APPROVED request of the employee overlaps
OverlappingApproved(e, start_date, end_date) ==
    {v \in vacations : /\ v.employee = e
                       /\ v.status = "APPROVED"
                       /\ v.start_date <= end_date
                       /\ v.end_date >= start_date}

\* VacationViewSet.create: validate, then Vacation.objects.create
VacationCreate(e, start_date, end_date) ==
    /\ pc = "idle"
    /\ Cardinality(vacations) < MaxRequests
    /\ end_date >= start_date
    /\ OverlappingApproved(e, start_date, end_date) = {}
    /\ vacations' = vacations \cup
          {[uuid |-> Cardinality(vacations) + 1, employee |-> e,
            start_date |-> start_date, end_date |-> end_date,
            status |-> DefaultVacationStatus]}
    /\ UNCHANGED << Aside, inactive_codes, employees, settings, cat_min_traders, events, parked,
                    db, logs, runs, pc, RunState, alg_before, starts, results >>

InitLeave ==
    /\ inactive_codes = {}
    /\ employees = Roster(1, NumEmployees)
    /\ settings = BaseSettings
    /\ cat_min_traders = SeedMinTraders
    /\ db = {}
    /\ vacations = {}
    /\ events = {}
    /\ InitLocals

NextLeave ==
    \/ \E e \in Employees, r \in (1..MaxLeaveDay) \X (1..MaxLeaveDay) :
          VacationCreate(e, r[1], r[2])
    \/ \E v \in vacations, action_val \in {"approve", "reject"} : VacationProcess(v, action_val)

SpecLeave == InitLeave /\ [][NextLeave]_vars

\* two requests of one employee whose inclusive ranges overlap
RangesOverlap(v, w) ==
    /\ v.employee = w.employee
    /\ v.start_date <= w.end_date
    /\ w.start_date <= v.end_date

SameRequest(v, w) == v.uuid = w.uuid

\* C29  After any sequence of create and approve operations no employee holds
\* two APPROVED requests whose inclusive ranges overlap, and a request is
\* approved or rejected only from PENDING, after which its status never changes.
C29LeaveWorkflowClaim ==
    /\ [](\A v, w \in vacations :
            (v # w /\ v.status = "APPROVED" /\ w.status = "APPROVED") => ~RangesOverlap(v, w))
    /\ [][\A v \in vacations :
            /\ v.status # "PENDING" => v \in vacations'
            /\ \A w \in vacations' :
                  (SameRequest(v, w) /\ w.status # v.status) => v.status = "PENDING"]_vars

(***************************************************************************)
(* Shift swaps: SwapRequestViewSet.create, respond and approve on a small  *)
(* Schedule table, with at most MaxSwaps requests.  Each handler is one    *)
(* step.                                                                   *)
(***************************************************************************)
MaxSwaps == 2

SwapDays == {1, 2}

\* the Schedule rows the requests refer to: the monitor and the first in-play
\* trader have a row on day 1, the monitor a row entered by hand on day 2
SwapTable ==
    {[employee |-> 1, date |-> 1, code |-> "MON6", edit_source |-> ALGORITHM],
     [employee |-> 2, date |-> 1, code |-> "IP9", edit_source |-> ALGORITHM],
     [employee |-> 1, date |-> 2, code |-> "MON14", edit_source |-> "MANUAL"]}

\* respond() accepts a request only while it is 'PENDING': the status of a new request
DefaultSwapStatus == "PENDING"

\* SwapRequestViewSet.create: requester and target differ and both have a Schedule
SwapCreate(requester, target, requester_date, target_date) ==
    /\ pc = "idle"
    /\ Cardinality(swaps) < MaxSwaps
    /\ requester # target
    /\ HasRow(db, requester, requester_date)
    /\ HasRow(db, target, target_date)
    /\ swaps' = swaps \cup
          {[uuid |-> Cardinality(swaps) + 1,
            requester |-> requester,
            requester_schedule |-> << requester, requester_date >>,
            target_employee |-> target,
            target_schedule |-> << target, target_date >>,
            status |-> DefaultSwapStatus,
            responded_by |-> 0]}
    /\ UNCHANGED << walk, Inputs, parked, db, logs, runs, pc, RunState, alg_before, starts,
                    results >>

\* SwapRequestViewSet.respond; responded_by records the caller (history)
SwapRespond(swap, caller, action_val) ==
    /\ pc = "idle"
    /\ swap \in swaps
    /\ swap.status = "PENDING"
    /\ caller = swap.target_employee
    /\ action_val \in {"accept", "reject"}
    /\ swaps' = (swaps \ {swap}) \cup
          {[swap EXCEPT !.status = IF action_val = "accept" THEN "ACCEPTED_BY_PEER"
                                   ELSE "REJECTED_BY_PEER",
                        !.responded_by = caller]}
    /\ UNCHANGED << walk, Inputs, parked, db, logs, runs, pc, RunState, alg_before, starts,
                    results >>

ScheduleOf(table, cell) == FirstRow(table, cell[1], cell[2])

ExecuteSwapOneSided(table, swap) ==
    LET sched_a == ScheduleOf(table, swap.requester_schedule)
        sched_b == ScheduleOf(table, swap.target_schedule)
    IN (table \ {sched_a})
       \cup {[sched_a EXCEPT !.code = sched_b.code, !.edit_source = "SWAP"]}

\* _execute_swap: the two shift types change places, both rows become SWAP rows
ExecuteSwap(table, swap) ==
    LET sched_a == ScheduleOf(table, swap.requester_schedule)
        sched_b == ScheduleOf(table, swap.target_schedule)
    IN (table \ {sched_a, sched_b})
       \cup {[sched_a EXCEPT !.code = sched_b.code, !.edit_source = "SWAP"],
             [sched_b EXCEPT !.code = sched_a.code, !.edit_source = "SWAP"]}

\* SwapRequestViewSet.approve
SwapApprove(swap, action_val) ==
    /\ pc = "idle"
    /\ swap \in swaps
    /\ swap.status = "ACCEPTED_BY_PEER"
    /\ action_val \in {"approve", "reject"}
    /\ IF action_val = "approve"
       THEN /\ db' = ExecuteSwap(db, swap)
            /\ swaps' = (swaps \ {swap}) \cup {[swap EXCEPT !.status = "APPROVED"]}
       ELSE /\ db' = db
            /\ swaps' = (swaps \ {swap}) \cup {[swap EXCEPT !.status = "REJECTED_BY_ADMIN"]}
    /\ UNCHANGED << walk, Inputs, parked, logs, runs, pc, RunState, alg_before, starts,
                    results >>

InitSwap ==
    /\ inactive_codes = {}
    /\ employees = Roster(1, NumEmployees)
    /\ settings = BaseSettings
    /\ cat_min_traders = SeedMinTraders
    /\ db = SwapTable
    /\ vacations = {}
    /\ events = {}
    /\ InitLocals

NextSwap ==
    \/ \E requester, target \in Employees, requester_date, target_date \in SwapDays :
          SwapCreate(requester, target, requester_date, target_date)
    \/ \E swap \in swaps, caller \in Employees, action_val \in {"accept", "reject"} :
          SwapRespond(swap, caller, action_val)
    \/ \E swap \in swaps, action_val \in {"approve", "reject"} : SwapApprove(swap, action_val)

SpecSwap == InitSwap /\ [][NextSwap]_vars

\* the request after the step
SwapAfter(swap) == CHOOSE after \in swaps' : after.uuid = swap.uuid

RowOf(table, cell) == CHOOSE r \in table : r.employee = cell[1] /\ r.date = cell[2]

\* the step approves the request
BecomesApproved(swap) == swap.status # "APPROVED" /\ SwapAfter(swap).status = "APPROVED"

\* the table after the step is the table before it with the shift types of the
\* two schedules of the request exchanged and both rows marked SWAP
Exchanged(swap) ==
    LET a == swap.requester_schedule
        b == swap.target_schedule
    IN /\ \A r \in db : (<< r.employee, r.date >> \notin {a, b}) => r \in db'
       /\ Cardinality(db') = Cardinality(db)
       /\ RowOf(db', a).code = RowOf(db, b).code
       /\ RowOf(db', b).code = RowOf(db, a).code
       /\ RowOf(db', a).edit_source = "SWAP"
       /\ RowOf(db', b).edit_source = "SWAP"

====
